---- MODULE Spec2Model ----
(***************************************************************************)
(* A model of the dynamic array of src/vector.c (struct Vector and the     *)
(* vector_* functions) together with the part of the C allocator the code  *)
(* relies on (malloc, realloc, free on the storage block).                 *)
(*                                                                         *)
(* Two array handles exist: "orig", made by vector_init, and "clone", made *)
(* by vector_clone(orig).  Storage blocks are identified so that a pointer *)
(* that outlives its block (vec->value after realloc(value, 0) released    *)
(* the block and returned NULL) keeps designating the block, as it does in *)
(* the program.                                                            *)
(***************************************************************************)
EXTENDS Integers, Sequences, FiniteSets, TLC

(* ------------------------------ bounds --------------------------------- *)

\* Largest number of element slots the allocator grants to one block.
MaxCap == 4

\* Largest capacity asked for by the program that uses two arrays.
CloneCap == 2

\* Number of element instances a program that tracks them stores.
MaxInst == 3

\* Largest capacity a program that tracks element instances asks for.
InstCap == 2

\* Width of size_t in the model; products are taken modulo 2^WordBits.
WordBits == 6

\* Element values (an element is an opaque block of elem_size bytes).
Elems == {1, 2}

\* Element values of the end-to-end scenario.
ScenarioElems == {1, 2, 3, 99}

\* Element sizes offered to vector_init.
ElemSizes == {2}

\* Storage blocks of the heap.
Blocks == {1, 2}

VecIds == {"orig", "clone"}

(* --------------------------- C-level values ---------------------------- *)

\* The null pointer.
NULL == 0

\* Content of a slot that was never written since its block was obtained,
\* or whose block was released: indeterminate bytes.
Uninit == 0

SizeMod == 2 ^ WordBits

\* size_t multiplication.
Mul(a, b) == (a * b) % SizeMod

Min(a, b) == IF a <= b THEN a ELSE b

Slots == 1 .. MaxCap

\* struct Vector; destructor is TRUE when a destructor was supplied.
Vector(value, elem_size, elem_count, capacity, destructor) ==
    [value |-> value, elem_size |-> elem_size, elem_count |-> elem_count,
     capacity |-> capacity, destructor |-> destructor]

\* The handle of an array that does not exist.
NoVector == Vector(NULL, 0, 0, 0, FALSE)

FreeBlock == [alloc |-> FALSE, size |-> 0, mem |-> [i \in Slots |-> Uninit]]

VARIABLES
    vecs,    \* handle -> struct Vector
    made,    \* handles of the arrays that exist
    heap,    \* block -> [alloc, size in bytes, mem: slot -> value]
    op,      \* the last call: name, handle, arguments and results
    dcalls,  \* slots the destructor was invoked on during the last call
    pre,     \* live elements before the last insert/pop_back, kept while it is being undone
    ref,     \* reference list replayed beside "orig"
    pie,     \* only push_back/insert/erase were called since vector_init
    scen,    \* how many steps of the end-to-end scenario the last calls make up
    inst     \* the element instances stored, handed out and destructed so far

vars == <<vecs, made, heap, op, dcalls, pre, ref, pie, scen, inst>>

(* ------------------------------ allocator ------------------------------ *)

\* Whether the allocator can grant n bytes for elements of es bytes.
Fits(n, es) == es > 0 /\ n \div es <= MaxCap

\* free(b): the block goes back to the allocator, its bytes are lost.
free(h, b) == IF b = NULL THEN h ELSE [h EXCEPT ![b] = FreeBlock]

\* malloc(n): NULL, or any block the allocator holds; the block keeps the
\* bytes it has.  The results are [ptr, heap].
malloc(h, n, es) ==
    {[ptr |-> NULL, heap |-> h]}
    \cup {[ptr |-> b, heap |-> [h EXCEPT ![b].alloc = TRUE, ![b].size = n]] :
            b \in {c \in Blocks : ~h[c].alloc /\ Fits(n, es)}}

\* realloc(p, n), p not NULL.  NULL with the block untouched; for n = 0 also
\* NULL with the block released; the same block resized; or another block
\* holding the first min(old size, n) bytes, the old one released.  A block
\* that was released already (p dangles) is resized where it lies or not at
\* all: moving it would release it a second time.
realloc(h, p, n, es) ==
    LET keep == Min(h[p].size, n) \div es
        moved(b) ==
            LET h1 == [h EXCEPT ![b].alloc = TRUE, ![b].size = n,
                                ![b].mem = [i \in Slots |->
                                    IF i <= keep THEN h[p].mem[i] ELSE h[b].mem[i]]]
            IN  free(h1, p)
    IN  {[ptr |-> NULL, heap |-> h]}
        \cup (IF n = 0 THEN {[ptr |-> NULL, heap |-> free(h, p)]} ELSE {})
        \cup (IF Fits(n, es)
              THEN {[ptr |-> p, heap |-> [h EXCEPT ![p].alloc = TRUE, ![p].size = n]]}
                   \cup {[ptr |-> b, heap |-> moved(b)] :
                            b \in {c \in Blocks : h[p].alloc /\ ~h[c].alloc /\ c # p}}
              ELSE {})

\* memcpy of one element into slot idx (0-based) of block p.
memcpy(h, p, idx, elem) == [h EXCEPT ![p].mem[idx + 1] = elem]

\* memmove of n elements inside block p from slot src to slot dst (0-based).
memmove(h, p, dst, src, n) ==
    [h EXCEPT ![p].mem = [i \in Slots |->
        IF dst + 1 <= i /\ i <= dst + n THEN h[p].mem[i - dst + src] ELSE h[p].mem[i]]]

\* The element stored in slot idx (0-based) of the array.
vector_at(vec, h, idx) == h[vec.value].mem[idx + 1]

\* The live elements, slots [0, elem_count), in order.
Live(vec, h) == [i \in 1 .. vec.elem_count |-> h[vec.value].mem[i]]

\* What a call yields: the struct, the heap, the C return value as a truth
\* value (non-NULL, true), whether an allocation returned NULL, the slots
\* handed to the destructor, and the bytes copied out.
Outcome(vec, h, ret, fail, calls, out) ==
    [vec |-> vec, heap |-> h, ret |-> ret, fail |-> fail, calls |-> calls, out |-> out]

(* --------------------------- src/vector.c ------------------------------ *)

\* The destructor loop running over the whole capacity instead of the live
\* elements.
DestructorLoop_ToCapacity(vec) ==
    IF vec.destructor
    THEN [i \in 1 .. ((Mul(vec.capacity, vec.elem_size) + vec.elem_size - 1)
                        \div vec.elem_size) |-> i - 1]
    ELSE << >>

\* The slots the destructor loop of vector_cleanup / vector_clear visits:
\* ptr runs from value in steps of elem_size while below
\* value + elem_count * elem_size.
DestructorLoop(vec) ==
    IF vec.destructor
    THEN [i \in 1 .. ((Mul(vec.elem_count, vec.elem_size) + vec.elem_size - 1)
                        \div vec.elem_size) |-> i - 1]
    ELSE << >>

\* vector_init without the guard that turns a requested capacity of 0 into 1.
vector_init_KeepsZero(h, capacity, elem_size, destructor) ==
    {IF m.ptr = NULL
     THEN Outcome(NoVector, m.heap, FALSE, TRUE, << >>, Uninit)
     ELSE Outcome(Vector(m.ptr, elem_size, 0, capacity, destructor), m.heap,
                  TRUE, FALSE, << >>, Uninit) :
        m \in malloc(h, Mul(capacity, elem_size), elem_size)}

vector_init(h, capacity, elem_size, destructor) ==
    LET cap == IF capacity = 0 THEN 1 ELSE capacity
    IN  {IF m.ptr = NULL
         THEN Outcome(NoVector, m.heap, FALSE, TRUE, << >>, Uninit)
         ELSE Outcome(Vector(m.ptr, elem_size, 0, cap, destructor), m.heap,
                      TRUE, FALSE, << >>, Uninit) :
            m \in malloc(h, Mul(cap, elem_size), elem_size)}

vector_cleanup(vec, h) ==
    {Outcome(NoVector, free(h, vec.value), TRUE, FALSE, DestructorLoop(vec), Uninit)}

vector_reset(vec, h) ==
    {Outcome([vec EXCEPT !.elem_count = 0], h, TRUE, FALSE, << >>, Uninit)}

\* vector_clear with the two steps exchanged: the size is reset before the
\* destructor loop runs, so the loop visits nothing.
vector_clear_ResetsFirst(vec, h) ==
    {Outcome(r.vec, r.heap, TRUE, FALSE, DestructorLoop(r.vec), Uninit) :
        r \in vector_reset(vec, h)}

vector_clear(vec, h) ==
    {Outcome(r.vec, r.heap, TRUE, FALSE, DestructorLoop(vec), Uninit) :
        r \in vector_reset(vec, h)}

\* vector_reserve storing the new capacity before it looks at what realloc
\* returned.
vector_reserve_CommitsFirst(vec, h, capacity) ==
    IF capacity <= vec.capacity
    THEN {Outcome(vec, h, FALSE, FALSE, << >>, Uninit)}
    ELSE {IF r.ptr = NULL
          THEN Outcome([vec EXCEPT !.capacity = capacity], r.heap, FALSE, TRUE,
                       << >>, Uninit)
          ELSE Outcome([vec EXCEPT !.capacity = capacity, !.value = r.ptr], r.heap,
                       TRUE, FALSE, << >>, Uninit) :
            r \in realloc(h, vec.value, Mul(capacity, vec.elem_size), vec.elem_size)}

\* vector_reserve with < for <=: a request for the capacity the array has
\* already is sent to realloc.
vector_reserve_StrictLess(vec, h, capacity) ==
    IF capacity < vec.capacity
    THEN {Outcome(vec, h, FALSE, FALSE, << >>, Uninit)}
    ELSE {IF r.ptr = NULL
          THEN Outcome(vec, r.heap, FALSE, TRUE, << >>, Uninit)
          ELSE Outcome([vec EXCEPT !.capacity = capacity, !.value = r.ptr], r.heap,
                       TRUE, FALSE, << >>, Uninit) :
            r \in realloc(h, vec.value, Mul(capacity, vec.elem_size), vec.elem_size)}

vector_reserve(vec, h, capacity) ==
    IF capacity <= vec.capacity
    THEN {Outcome(vec, h, FALSE, FALSE, << >>, Uninit)}
    ELSE {IF r.ptr = NULL
          THEN Outcome(vec, r.heap, FALSE, TRUE, << >>, Uninit)
          ELSE Outcome([vec EXCEPT !.capacity = capacity, !.value = r.ptr], r.heap,
                       TRUE, FALSE, << >>, Uninit) :
            r \in realloc(h, vec.value, Mul(capacity, vec.elem_size), vec.elem_size)}

\* The growth step with > for >=: a full array is not grown.
Grow_OffByOne(vec, h) ==
    IF vec.elem_count > vec.capacity
    THEN vector_reserve(vec, h, Mul(vec.capacity, 2))
    ELSE {Outcome(vec, h, TRUE, FALSE, << >>, Uninit)}

\* The growth step asking for one more slot instead of twice the capacity.
Grow_ByOne(vec, h) ==
    IF vec.elem_count >= vec.capacity
    THEN vector_reserve(vec, h, vec.capacity + 1)
    ELSE {Outcome(vec, h, TRUE, FALSE, << >>, Uninit)}

\* The growth step shared by vector_push_back and vector_insert:
\* if (elem_count >= capacity) { if (!vector_reserve(vec, capacity * 2)) return; }
\* ret tells whether the caller goes on.
Grow(vec, h) ==
    IF vec.elem_count >= vec.capacity
    THEN vector_reserve(vec, h, Mul(vec.capacity, 2))
    ELSE {Outcome(vec, h, TRUE, FALSE, << >>, Uninit)}

vector_push_back(vec, h, elem) ==
    {IF ~g.ret
     THEN Outcome(g.vec, g.heap, FALSE, g.fail, << >>, Uninit)
     ELSE Outcome([g.vec EXCEPT !.elem_count = @ + 1],
                  memcpy(g.heap, g.vec.value, g.vec.elem_count, elem),
                  TRUE, FALSE, << >>, Uninit) :
        g \in Grow(vec, h)}

\* vector_pop_back that also hands the popped slot to the destructor.
vector_pop_back_Destructs(vec, h) ==
    LET v1 == [vec EXCEPT !.elem_count = @ - 1]
    IN  {Outcome(v1, h, TRUE, FALSE,
                 IF vec.destructor THEN <<v1.elem_count>> ELSE << >>,
                 vector_at(v1, h, v1.elem_count))}

\* vector_pop_back copying from the start of the storage, the offset
\* elem_count * elem_size left out.
vector_pop_back_NoOffset(vec, h) ==
    LET v1 == [vec EXCEPT !.elem_count = @ - 1]
    IN  {Outcome(v1, h, TRUE, FALSE, << >>, vector_at(v1, h, 0))}

\* Requires elem_count > 0.
vector_pop_back(vec, h) ==
    LET v1 == [vec EXCEPT !.elem_count = @ - 1]
    IN  {Outcome(v1, h, TRUE, FALSE, << >>, vector_at(v1, h, v1.elem_count))}

\* vector_shrink_to_fit storing the new pointer but not the new capacity.
vector_shrink_to_fit_KeepsCapacity(vec, h) ==
    IF vec.elem_count < vec.capacity
    THEN {IF r.ptr = NULL
          THEN Outcome(vec, r.heap, FALSE, TRUE, << >>, Uninit)
          ELSE Outcome([vec EXCEPT !.value = r.ptr], r.heap, TRUE, FALSE, << >>, Uninit) :
            r \in realloc(h, vec.value, Mul(vec.elem_count, vec.elem_size),
                          vec.elem_size)}
    ELSE {Outcome(vec, h, FALSE, FALSE, << >>, Uninit)}

vector_shrink_to_fit(vec, h) ==
    IF vec.elem_count < vec.capacity
    THEN LET new_capacity == vec.elem_count
         IN  {IF r.ptr = NULL
              THEN Outcome(vec, r.heap, FALSE, TRUE, << >>, Uninit)
              ELSE Outcome([vec EXCEPT !.value = r.ptr, !.capacity = new_capacity],
                           r.heap, TRUE, FALSE, << >>, Uninit) :
                r \in realloc(h, vec.value, Mul(new_capacity, vec.elem_size),
                              vec.elem_size)}
    ELSE {Outcome(vec, h, FALSE, FALSE, << >>, Uninit)}

\* vector_insert without the memmove: the element at `at` is overwritten.
vector_insert_NoShift(vec, h, at, src) ==
    {IF ~g.ret
     THEN Outcome(g.vec, g.heap, FALSE, g.fail, << >>, Uninit)
     ELSE Outcome([g.vec EXCEPT !.elem_count = @ + 1],
                  memcpy(g.heap, g.vec.value, at, src),
                  TRUE, FALSE, << >>, Uninit) :
        g \in Grow(vec, h)}

\* Requires at <= elem_count.
vector_insert(vec, h, at, src) ==
    {IF ~g.ret
     THEN Outcome(g.vec, g.heap, FALSE, g.fail, << >>, Uninit)
     ELSE LET h1 == memmove(g.heap, g.vec.value, at + 1, at, g.vec.elem_count - at)
          IN  Outcome([g.vec EXCEPT !.elem_count = @ + 1],
                      memcpy(h1, g.vec.value, at, src),
                      TRUE, FALSE, << >>, Uninit) :
        g \in Grow(vec, h)}

\* vector_erase without the memmove: the last element is dropped instead.
vector_erase_NoShift(vec, h, at) ==
    {Outcome([vec EXCEPT !.elem_count = @ - 1], h, TRUE, FALSE,
             IF vec.destructor THEN <<at>> ELSE << >>, Uninit)}

\* Requires at < elem_count.
vector_erase(vec, h, at) ==
    {Outcome([vec EXCEPT !.elem_count = @ - 1],
             memmove(h, vec.value, at, at + 1, vec.elem_count - at - 1),
             TRUE, FALSE,
             IF vec.destructor THEN <<at>> ELSE << >>, Uninit)}

\* vector_clone giving the clone the capacity of the source instead of its
\* elem_count.
vector_clone_CopiesCapacity(vec, h) ==
    {IF m.ptr = NULL
     THEN Outcome(NoVector, m.heap, FALSE, TRUE, << >>, Uninit)
     ELSE Outcome(Vector(m.ptr, vec.elem_size, vec.elem_count, vec.capacity,
                         vec.destructor),
                  [m.heap EXCEPT ![m.ptr].mem = [i \in Slots |->
                      IF i <= Mul(vec.elem_count, vec.elem_size) \div vec.elem_size
                      THEN h[vec.value].mem[i] ELSE m.heap[m.ptr].mem[i]]],
                  TRUE, FALSE, << >>, Uninit) :
        m \in malloc(h, Mul(vec.capacity, vec.elem_size), vec.elem_size)}

\* The outcome's vec is the clone; the source array is only read.
vector_clone(vec, h) ==
    {IF m.ptr = NULL
     THEN Outcome(NoVector, m.heap, FALSE, TRUE, << >>, Uninit)
     ELSE Outcome(Vector(m.ptr, vec.elem_size, vec.elem_count, vec.elem_count,
                         vec.destructor),
                  [m.heap EXCEPT ![m.ptr].mem = [i \in Slots |->
                      IF i <= Mul(vec.elem_count, vec.elem_size) \div vec.elem_size
                      THEN h[vec.value].mem[i] ELSE m.heap[m.ptr].mem[i]]],
                  TRUE, FALSE, << >>, Uninit) :
        m \in malloc(h, Mul(vec.elem_count, vec.elem_size), vec.elem_size)}

vector_size(vec) == vec.elem_count

vector_capacity(vec) == vec.capacity

(* ------------------------- reference list ------------------------------ *)

\* The reference operations of an ordered list: insert before position i
\* (1-based) and removal of position i.
InsertAt(s, i, x) == SubSeq(s, 1, i - 1) \o <<x>> \o SubSeq(s, i, Len(s))

RemoveAt(s, i) == SubSeq(s, 1, i - 1) \o SubSeq(s, i + 1, Len(s))

\* The reference list after the call `name`.
Replay(s, name, at, elem) ==
    CASE name = "push_back" -> Append(s, elem)
      [] name = "insert"    -> InsertAt(s, at + 1, elem)
      [] name = "erase"     -> RemoveAt(s, at + 1)
      [] OTHER              -> s

(* ----------------------- end-to-end scenario ---------------------------- *)

\* Whether a call is step k of the scenario: create with capacity 2; push
\* 1, 2, 3; insert 99 at index 1; erase index 0; pop_back.
ScenarioStep(k, name, at, elem) ==
    CASE k = 1 -> name = "create" /\ at = 2
      [] k = 2 -> name = "push_back" /\ elem = 1
      [] k = 3 -> name = "push_back" /\ elem = 2
      [] k = 4 -> name = "push_back" /\ elem = 3
      [] k = 5 -> name = "insert" /\ at = 1 /\ elem = 99
      [] k = 6 -> name = "erase" /\ at = 0
      [] k = 7 -> name = "pop_back"
      [] OTHER -> FALSE

\* The number of scenario steps made so far, after a call that returned
\* ret: the next step carries on, a create with capacity 2 starts over.
ScenarioAfter(k, name, at, elem, ret) ==
    IF ret /\ ScenarioStep(k + 1, name, at, elem) THEN k + 1
    ELSE IF ret /\ ScenarioStep(1, name, at, elem) THEN 1
    ELSE 0

(* ------------------------- element instances --------------------------- *)

\* No instances are tracked: elements are plain values.
NoInstances == [next |-> 0, popped |-> {}, destructed |-> {}]

\* The elements a call hands to the destructor: the contents, when the call
\* starts, of the slots it passes.
Destructed(vec, h, calls) == {vector_at(vec, h, calls[i]) : i \in DOMAIN calls}

\* The instances after a call, when they are tracked: a successful push_back
\* or insert has stored instance `next`, pop_back has handed one to the
\* caller, the destructor has received those of `calls`.
InstancesAfter(i, name, vec, h, o) ==
    IF i.next = 0 THEN i
    ELSE [next |-> IF name \in {"push_back", "insert"} /\ o.ret
                   THEN i.next + 1 ELSE i.next,
          popped |-> IF name = "pop_back" THEN i.popped \cup {o.out} ELSE i.popped,
          destructed |-> i.destructed \cup Destructed(vec, h, o.calls)]

(* ------------------------------ actions -------------------------------- *)

\* Whether the call undoes the call before it: an erase at the index of the
\* insert that just succeeded on the same array, or a push_back of the bytes
\* the pop_back just before it copied out.
Pair(name, v, at, elem) ==
    IF name = "erase" /\ op.name = "insert" /\ op.ret /\ op.v = v /\ op.at = at
    THEN "insert-erase"
    ELSE IF name = "push_back" /\ op.name = "pop_back" /\ op.v = v /\ op.out = elem
         THEN "pop-push"
         ELSE "none"

Call(name, v, at, elem, o) ==
    [name |-> name, v |-> v, at |-> at, elem |-> elem,
     ret |-> o.ret, fail |-> o.fail, out |-> o.out, pair |-> Pair(name, v, at, elem)]

NoCall == [name |-> "none", v |-> "orig", at |-> 0, elem |-> Uninit,
           ret |-> FALSE, fail |-> FALSE, out |-> Uninit, pair |-> "none"]

\* The bookkeeping every call on an existing array shares.
Commit(name, v, at, elem, o) ==
    /\ vecs' = [vecs EXCEPT ![v] = o.vec]
    /\ heap' = o.heap
    /\ op' = Call(name, v, at, elem, o)
    /\ dcalls' = o.calls
    /\ pre' = IF name \in {"insert", "pop_back"} /\ o.ret
              THEN Live(vecs[v], heap)
              ELSE IF Pair(name, v, at, elem) # "none" THEN pre ELSE << >>
    /\ pie' = (pie /\ v = "orig" /\ name \in {"push_back", "insert", "erase"} /\ ~o.fail)
    /\ ref' = IF pie' THEN Replay(ref, name, at, elem) ELSE << >>
    /\ scen' = IF v = "orig" THEN ScenarioAfter(scen, name, at, elem, o.ret) ELSE 0
    /\ inst' = InstancesAfter(inst, name, vecs[v], heap, o)

Init ==
    /\ vecs = [v \in VecIds |-> NoVector]
    /\ made = {}
    /\ heap = [b \in Blocks |-> FreeBlock]
    /\ op = NoCall
    /\ dcalls = << >>
    /\ pre = << >>
    /\ ref = << >>
    /\ pie = FALSE
    /\ scen = 0
    /\ inst = NoInstances

Create(capacity, elem_size, destructor) ==
    /\ made = {}
    /\ \E o \in vector_init(heap, capacity, elem_size, destructor) :
        /\ vecs' = [vecs EXCEPT !["orig"] = o.vec]
        /\ made' = IF o.ret THEN {"orig"} ELSE made
        /\ heap' = o.heap
        /\ op' = Call("create", "orig", capacity, Uninit, o)
        /\ dcalls' = o.calls
        /\ pre' = << >>
        /\ pie' = o.ret
        /\ ref' = << >>
        /\ scen' = ScenarioAfter(scen, "create", capacity, Uninit, o.ret)
        /\ inst' = inst

Destroy(v) ==
    /\ v \in made
    /\ \E o \in vector_cleanup(vecs[v], heap) :
        /\ Commit("destroy", v, 0, Uninit, o)
        /\ made' = made \ {v}

Reset(v) ==
    /\ v \in made
    /\ \E o \in vector_reset(vecs[v], heap) : Commit("reset", v, 0, Uninit, o)
    /\ UNCHANGED made

Clear(v) ==
    /\ v \in made
    /\ \E o \in vector_clear(vecs[v], heap) : Commit("clear", v, 0, Uninit, o)
    /\ UNCHANGED made

PushBack(v, elem) ==
    /\ v \in made
    /\ \E o \in vector_push_back(vecs[v], heap, elem) : Commit("push_back", v, 0, elem, o)
    /\ UNCHANGED made

PopBack(v) ==
    /\ v \in made
    /\ vecs[v].elem_count > 0
    /\ \E o \in vector_pop_back(vecs[v], heap) : Commit("pop_back", v, 0, Uninit, o)
    /\ UNCHANGED made

Reserve(v, capacity) ==
    /\ v \in made
    /\ \E o \in vector_reserve(vecs[v], heap, capacity) :
        Commit("reserve", v, capacity, Uninit, o)
    /\ UNCHANGED made

ShrinkToFit(v) ==
    /\ v \in made
    /\ \E o \in vector_shrink_to_fit(vecs[v], heap) :
        Commit("shrink_to_fit", v, 0, Uninit, o)
    /\ UNCHANGED made

Insert(v, at, src) ==
    /\ v \in made
    /\ at <= vecs[v].elem_count
    /\ \E o \in vector_insert(vecs[v], heap, at, src) : Commit("insert", v, at, src, o)
    /\ UNCHANGED made

Erase(v, at) ==
    /\ v \in made
    /\ at < vecs[v].elem_count
    /\ \E o \in vector_erase(vecs[v], heap, at) : Commit("erase", v, at, Uninit, o)
    /\ UNCHANGED made

Clone ==
    /\ "orig" \in made
    /\ "clone" \notin made
    /\ \E o \in vector_clone(vecs["orig"], heap) :
        /\ vecs' = [vecs EXCEPT !["clone"] = o.vec]
        /\ made' = IF o.ret THEN made \cup {"clone"} ELSE made
        /\ heap' = o.heap
        /\ op' = Call("clone", "clone", 0, Uninit, o)
        /\ dcalls' = o.calls
        /\ pre' = << >>
        /\ pie' = FALSE
        /\ ref' = << >>
        /\ scen' = 0
        /\ inst' = inst

\* A program that uses one array.
Next ==
    \/ \E c \in 0 .. MaxCap, es \in ElemSizes, d \in BOOLEAN : Create(c, es, d)
    \/ Destroy("orig")
    \/ Reset("orig")
    \/ Clear("orig")
    \/ \E x \in Elems : PushBack("orig", x)
    \/ PopBack("orig")
    \/ \E c \in 0 .. MaxCap + 1 : Reserve("orig", c)
    \/ ShrinkToFit("orig")
    \/ \E at \in 0 .. MaxCap, x \in Elems : Insert("orig", at, x)
    \/ \E at \in 0 .. MaxCap : Erase("orig", at)

Spec == Init /\ [][Next]_vars

\* A program that makes the calls of the end-to-end scenario, in any order.
NextScenario ==
    \/ \E d \in BOOLEAN : Create(2, 4, d)
    \/ Destroy("orig")
    \/ \E x \in ScenarioElems \ {99} : PushBack("orig", x)
    \/ PopBack("orig")
    \/ \E at \in 0 .. 1 : Insert("orig", at, 99)
    \/ \E at \in 0 .. 1 : Erase("orig", at)

SpecScenario == Init /\ [][NextScenario]_vars

\* A program that uses one array in any way and then takes a clone of it.
NextThenClone ==
    \/ \E c \in 0 .. MaxCap, es \in ElemSizes, d \in BOOLEAN : Create(c, es, d)
    \/ "clone" \notin made /\ Destroy("orig")
    \/ "clone" \notin made /\ Reset("orig")
    \/ "clone" \notin made /\ Clear("orig")
    \/ \E x \in Elems : "clone" \notin made /\ PushBack("orig", x)
    \/ "clone" \notin made /\ PopBack("orig")
    \/ \E c \in 0 .. MaxCap + 1 : "clone" \notin made /\ Reserve("orig", c)
    \/ "clone" \notin made /\ ShrinkToFit("orig")
    \/ \E at \in 0 .. MaxCap, x \in Elems : "clone" \notin made /\ Insert("orig", at, x)
    \/ \E at \in 0 .. MaxCap - 1 : "clone" \notin made /\ Erase("orig", at)
    \/ Clone

SpecThenClone == Init /\ [][NextThenClone]_vars

\* A program that uses one array with a destructor and stores a new element
\* instance, told from all others by its number, with every push_back and
\* insert.
InitInstances ==
    /\ vecs = [v \in VecIds |-> NoVector]
    /\ made = {}
    /\ heap = [b \in Blocks |-> FreeBlock]
    /\ op = NoCall
    /\ dcalls = << >>
    /\ pre = << >>
    /\ ref = << >>
    /\ pie = FALSE
    /\ scen = 0
    /\ inst = [NoInstances EXCEPT !.next = 1]

NextInstances ==
    \/ \E c \in 0 .. InstCap, es \in ElemSizes : Create(c, es, TRUE)
    \/ Destroy("orig")
    \/ Reset("orig")
    \/ Clear("orig")
    \/ inst.next <= MaxInst /\ PushBack("orig", inst.next)
    \/ PopBack("orig")
    \/ \E c \in 0 .. InstCap + 1 : Reserve("orig", c)
    \/ ShrinkToFit("orig")
    \/ \E at \in 0 .. MaxCap : inst.next <= MaxInst /\ Insert("orig", at, inst.next)
    \/ \E at \in 0 .. MaxCap : Erase("orig", at)

SpecInstances == InitInstances /\ [][NextInstances]_vars

\* The capacities whose product with elem_size does not fit the word: the
\* product wraps to 0 and to elem_size.
OverflowCaps(elem_size) == {SizeMod \div elem_size, SizeMod \div elem_size + 1}

\* A program that also asks for capacities whose byte size wraps around, and
\* never stores more than MaxCap elements.
NextOverflow ==
    \/ \E es \in ElemSizes : \E c \in {1, 2} \cup OverflowCaps(es) : Create(c, es, FALSE)
    \/ Destroy("orig")
    \/ \E x \in Elems : vecs["orig"].elem_count < MaxCap /\ PushBack("orig", x)
    \/ PopBack("orig")
    \/ \E es \in ElemSizes : \E c \in {2} \cup OverflowCaps(es) : Reserve("orig", c)
    \/ ShrinkToFit("orig")
    \/ \E at \in 0 .. MaxCap - 1, x \in Elems :
        vecs["orig"].elem_count < MaxCap /\ Insert("orig", at, x)
    \/ \E at \in 0 .. MaxCap - 1 : Erase("orig", at)

SpecOverflow == Init /\ [][NextOverflow]_vars

\* A program that clones its array and goes on using both, never holding
\* more than CloneCap elements in either.
NextClone ==
    \/ \E c \in 0 .. CloneCap, es \in ElemSizes : Create(c, es, FALSE)
    \/ Clone
    \/ \E v \in VecIds : Destroy(v)
    \/ \E v \in VecIds : Clear(v)
    \/ \E v \in VecIds, x \in Elems :
        vecs[v].elem_count < CloneCap /\ PushBack(v, x)
    \/ \E v \in VecIds : PopBack(v)
    \/ \E v \in VecIds, c \in 0 .. CloneCap : Reserve(v, c)
    \/ \E v \in VecIds : ShrinkToFit(v)
    \/ \E v \in VecIds, at \in 0 .. CloneCap, x \in Elems :
        vecs[v].elem_count < CloneCap /\ Insert(v, at, x)
    \/ \E v \in VecIds, at \in 0 .. CloneCap : Erase(v, at)

SpecClone == Init /\ [][NextClone]_vars

(* ------------------------------ properties ---------------------------- *)

Orig == vecs["orig"]

\* The array the last call was made on, and its live elements.
Target == vecs[op.v]

LiveOf(v) == Live(vecs[v], heap)

\* C1: every array that exists has capacity >= 1.
\* shrink_to_fit of an empty array and vector_clone of an empty array set
\* capacity to elem_count = 0.
C1_CapacityAtLeastOne == \A v \in made : vector_capacity(vecs[v]) >= 1

\* C2: in every reachable state, 0 <= length <= capacity, also after calls
\* whose reallocation failed.
C2_LengthWithinCapacity ==
    \A v \in made : 0 <= vector_size(vecs[v]) /\ vector_size(vecs[v]) <= vector_capacity(vecs[v])

\* A push_back on a full array of two elements whose reallocation failed.
C2_Witness ==
    /\ "orig" \in made
    /\ op.name = "push_back" /\ op.fail
    /\ Orig.elem_count = 2 /\ Orig.capacity = 2

\* C3: while only push_back, insert and erase were called on a freshly
\* created array and no allocation failed, the live elements are, in order,
\* the reference list on which the same calls were replayed.
C3_OrderMatchesReference == pie => LiveOf("orig") = ref

\* An insert in the middle, between two different elements.
C3_Witness ==
    /\ pie /\ op.name = "insert" /\ op.at = 1
    /\ Len(ref) = 3 /\ ref[1] # ref[3]

\* C4: push_back and insert fail only when an allocation failed; when none
\* did, they succeed and push_back has stored the element in the last live
\* slot.  An array of capacity 0 refuses every push_back and insert without
\* calling the allocator.
C4_FailsOnlyOnAllocationFailure ==
    (op.name \in {"push_back", "insert"} /\ ~op.fail)
        => /\ op.ret
           /\ Target.elem_count >= 1
           /\ op.name = "push_back"
                => vector_at(Target, heap, Target.elem_count - 1) = op.elem

C6_DestructorCounts ==
    [][vecs[op'.v].destructor
        => LET n == vecs[op'.v].elem_count
               all == [i \in 1 .. n |-> i - 1]
           IN  /\ op'.name = "clear"
                    => dcalls' = all /\ vecs'[op'.v].elem_count = 0
               /\ op'.name = "destroy" => dcalls' = all
               /\ op'.name \in {"reset", "pop_back"} => dcalls' = << >>]_vars

\* A clear of two elements.
C6_Witness ==
    /\ op.name = "clear" /\ dcalls = <<0, 1>>
    /\ Target.elem_count = 0

\* C7 as claimed: only clear and destroy invoke the destructor.
C7_OnlyClearAndDestroy ==
    op.name \notin {"clear", "destroy"} => dcalls = << >>

\* C7 as the code has it: only clear, destroy and erase invoke the
\* destructor; erase invokes it once, on the erased slot.
C7_OnlyClearDestroyErase ==
    /\ op.name \notin {"clear", "destroy", "erase"} => dcalls = << >>
    /\ op.name = "erase"
        => dcalls = IF Target.destructor THEN <<op.at>> ELSE << >>

\* An erase of slot 1 that invoked the destructor on it.
C7_Witness ==
    /\ op.name = "erase" /\ op.at = 1 /\ Target.destructor
    /\ dcalls = <<1>>

\* C8: while an array and its clone both exist, a call on one of them leaves
\* the length and the live elements of the other unchanged.
C8_CloneIndependence ==
    [][(made = VecIds /\ made' = VecIds)
        => \A w \in VecIds \ {op'.v} :
            /\ vecs'[w].elem_count = vecs[w].elem_count
            /\ Live(vecs'[w], heap') = Live(vecs[w], heap)]_vars

\* C9: an erase at index i right after a successful insert at index i leaves
\* the live elements, and so the length, as they were before the insert.
C9_InsertEraseRestores ==
    op.pair = "insert-erase" => LiveOf(op.v) = pre

\* An insert in the middle of two elements, undone.
C9_Witness ==
    /\ op.pair = "insert-erase" /\ op.at = 1
    /\ Len(pre) = 2 /\ pre[1] # pre[2]

\* C10: pop_back copies out the last live element and decrements the
\* length; a push_back of these bytes right after succeeds and leaves the
\* live elements, and so the length, as they were before the pop_back.
C10_PopPushRestores ==
    /\ op.name = "pop_back"
        => op.out = pre[Len(pre)] /\ Target.elem_count = Len(pre) - 1
    /\ op.pair = "pop-push" => op.ret /\ LiveOf(op.v) = pre

\* Two different elements, the last one popped and pushed back.
C10_Witness ==
    /\ op.pair = "pop-push"
    /\ Len(pre) = 2 /\ pre[1] # pre[2]

\* C11: reserve(a, c) with c <= capacity(a) returns false, calls no
\* allocator, and leaves the struct and every byte of the heap as they were.
C11_ReserveNoOp ==
    [][(op'.name = "reserve" /\ op'.at <= vecs[op'.v].capacity)
        => /\ ~op'.ret /\ ~op'.fail
           /\ vecs' = vecs
           /\ heap' = heap]_vars

\* A reserve of 2 on an array of capacity 3 that holds two elements.
C11_Witness ==
    /\ op.name = "reserve" /\ op.at = 2 /\ ~op.ret
    /\ Target.capacity = 3 /\ Target.elem_count = 2

\* C12: the end-to-end scenario.  After create(2) and push_back of 1, 2, 3
\* the capacity is 4; insert 99 at index 1 gives [1, 99, 2, 3]; erase index 0
\* gives [99, 2, 3]; pop_back returns 3 and leaves [99, 2]; at the end the
\* size is 2, the capacity 4, at(0) = 99 and at(1) = 2.
C12_Scenario ==
    /\ scen = 4 => LiveOf("orig") = <<1, 2, 3>> /\ vector_capacity(Orig) = 4
    /\ scen = 5 => LiveOf("orig") = <<1, 99, 2, 3>>
    /\ scen = 6 => LiveOf("orig") = <<99, 2, 3>>
    /\ scen = 7 => /\ op.out = 3
                   /\ LiveOf("orig") = <<99, 2>>
                   /\ vector_size(Orig) = 2
                   /\ vector_capacity(Orig) = 4
                   /\ vector_at(Orig, heap, 0) = 99
                   /\ vector_at(Orig, heap, 1) = 2

\* The scenario was run to its end.
C12_Witness == scen = 7 /\ op.name = "pop_back" /\ op.out = 3

\* C13: a successful create(c, es, d) yields an array of length 0 whose
\* capacity is c when c > 0 and 1 when c = 0.
C13_CreateLengthAndCapacity ==
    (op.name = "create" /\ op.ret)
        => /\ vector_size(Orig) = 0
           /\ vector_capacity(Orig) = (IF op.at > 0 THEN op.at ELSE 1)

\* A successful create with a requested capacity of 0.
C13_Witness ==
    /\ op.name = "create" /\ op.ret /\ op.at = 0
    /\ vector_capacity(Orig) = 1

\* C14: in any call on an existing array, push_back and insert leave the
\* capacity as it was (the array was not full, or the growth failed) or double
\* it exactly (the array was full and the growth succeeded); pop_back, erase,
\* clear and reset never change it; it decreases only in shrink_to_fit and
\* increases, apart from the doubling, only in reserve.
C14_CapacityChanges ==
    [][(op'.v \in made /\ op'.v \in made')
        => LET old == vecs[op'.v]
               new == vecs'[op'.v]
           IN  /\ op'.name \in {"push_back", "insert"}
                   => \/ /\ new.capacity = old.capacity
                         /\ old.elem_count < old.capacity \/ ~op'.ret
                      \/ /\ new.capacity = 2 * old.capacity
                         /\ old.elem_count = old.capacity
                         /\ op'.ret
               /\ op'.name \in {"pop_back", "erase", "clear", "reset"}
                   => new.capacity = old.capacity
               /\ new.capacity < old.capacity => op'.name = "shrink_to_fit"
               /\ new.capacity > old.capacity
                   => op'.name \in {"reserve", "push_back", "insert"}]_vars

\* A push_back on a full array of capacity 2 that doubled it.
C14_Witness ==
    /\ op.name = "push_back" /\ op.ret
    /\ vector_capacity(Target) = 4 /\ vector_size(Target) = 3

\* C15: a reserve that asks for more than the capacity either succeeds, and
\* then the capacity is exactly the one asked for, length and live elements
\* are as before and it returns true; or its reallocation fails, and then the
\* array is unchanged and the value returned differs from the value a no-op
\* reserve (one that asks for the capacity the array has) returns.
\* vector_reserve returns false in both cases.
C15_ReserveGrowsOrReportsError ==
    [][(op'.name = "reserve" /\ op'.at > vecs[op'.v].capacity)
        => LET old == vecs[op'.v]
               new == vecs'[op'.v]
           IN  /\ ~op'.fail
                   => /\ op'.ret
                      /\ new.capacity = op'.at
                      /\ new.elem_count = old.elem_count
                      /\ Live(new, heap') = Live(old, heap)
               /\ op'.fail
                   => /\ new = old
                      /\ Live(new, heap') = Live(old, heap)
                      /\ \A n \in vector_reserve(old, heap, old.capacity) :
                            n.ret # op'.ret]_vars

\* C16: shrink_to_fit on an array whose length equals its capacity changes
\* nothing and returns false; on any other array, when the reallocation
\* succeeds, the capacity becomes exactly the length, the length and the live
\* elements are as before and it returns true.
C16_ShrinkToFit ==
    [][op'.name = "shrink_to_fit"
        => LET old == vecs[op'.v]
               new == vecs'[op'.v]
           IN  /\ old.elem_count = old.capacity
                   => ~op'.ret /\ ~op'.fail /\ vecs' = vecs /\ heap' = heap
               /\ (old.elem_count # old.capacity /\ ~op'.fail)
                   => /\ op'.ret
                      /\ new.capacity = old.elem_count
                      /\ new.elem_count = old.elem_count
                      /\ Live(new, heap') = Live(old, heap)]_vars

\* A shrink_to_fit that took an array of two elements from capacity 4 to 2.
C16_Witness ==
    /\ op.name = "shrink_to_fit" /\ op.ret
    /\ vector_capacity(Target) = 2 /\ vector_size(Target) = 2
    /\ LiveOf(op.v) = <<1, 2>>

\* C17: a successful clone returns an array whose length and capacity both
\* equal the length of the original, whose live elements are those of the
\* original in order, and whose element size and destructor are those of the
\* original; the call invokes no destructor and leaves the length, the
\* capacity and the elements of the original as they were.
C17_CloneCopies ==
    [][(op'.name = "clone" /\ op'.ret)
        => LET old == vecs["orig"]
               new == vecs'["clone"]
           IN  /\ new.elem_count = old.elem_count
               /\ new.capacity = old.elem_count
               /\ Live(new, heap') = Live(old, heap)
               /\ new.elem_size = old.elem_size
               /\ new.destructor = old.destructor
               /\ dcalls' = << >>
               /\ vecs'["orig"].elem_count = old.elem_count
               /\ vecs'["orig"].capacity = old.capacity
               /\ Live(vecs'["orig"], heap') = Live(old, heap)]_vars

\* A clone of an array with a destructor that holds <<2, 1>> in capacity 4.
C17_Witness ==
    /\ op.name = "clone" /\ op.ret
    /\ LiveOf("clone") = <<2, 1>> /\ LiveOf("orig") = <<2, 1>>
    /\ vecs["orig"].capacity = 4 /\ vecs["clone"].capacity = 2
    /\ vecs["clone"].destructor

\* C18: on one array with a destructor that is never cloned, every call hands
\* the destructor only live elements (slots below the length), no element
\* twice, no element it has been handed in an earlier call (erased, cleared),
\* and no element that pop_back has handed to the caller.
C18_DestructorAtMostOnce ==
    [][LET old == vecs[op'.v]
           now == Destructed(old, heap, dcalls')
       IN  /\ \A i \in DOMAIN dcalls' : dcalls'[i] < old.elem_count
           /\ Cardinality(now) = Len(dcalls')
           /\ now \cap inst.destructed = {}
           /\ now \cap inst.popped = {}]_vars

\* A destroy that handed an element to the destructor after one element was
\* handed out by pop_back and another was erased.
C18_Witness ==
    /\ op.name = "destroy" /\ Len(dcalls) = 1
    /\ Cardinality(inst.popped) = 1
    /\ Cardinality(inst.destructed) = 2

\* C19: with the products capacity * elem_size and capacity * 2 taken modulo
\* 2^WordBits, the bytes that were requested from the allocator for the
\* storage of an array are at least elem_count * elem_size, so that every
\* element push_back and insert wrote lies inside the storage.
\* vector_init(2^WordBits / elem_size, elem_size) requests 0 bytes and records
\* the capacity 2^WordBits / elem_size; the next push_back writes elem_size
\* bytes into them.
C19_RequestedBytesCoverLength ==
    \A v \in made :
        heap[vecs[v].value].size >= vector_size(vecs[v]) * vecs[v].elem_size

====
